---- MODULE Spec2Model ----
(***************************************************************************)
(* ctxt - semantic call stack context manager (src/ctxt/ctxt.py).           *)
(*                                                                         *)
(* A failure raised in a body travels outward through annotation layers    *)
(* (Tracer.traced wrappers and Tracer.scope context managers).  Each layer *)
(* either lets the raw failure pass, or wraps what it received in one more *)
(* StackTracerException.  The caller finally renders the chain with        *)
(* StackTracerException.format('dict').                                    *)
(*                                                                         *)
(* Strings are sequences of characters, so that str.format and the         *)
(* placeholder regular expression are computed as Python computes them.    *)
(* A Python value is the record [t, s]: its type tag and its str() form.   *)
(* A dict is a function from keys (character sequences) to values.         *)
(***************************************************************************)
EXTENDS Integers, Sequences, FiniteSets, TLC

VARIABLES pc, exc, orig, depth, last, out, nSTE, nCaptured, gin, gout

vars == <<pc, exc, orig, depth, last, out, nSTE, nCaptured, gin, gout>>

(***************************************************************************)
(* Bounds                                                                  *)
(***************************************************************************)
\* number of annotation layers a failure may travel through
MaxDepth == 3
\* longest template handed to gather_params in SpecGather
MaxLen == 5

(***************************************************************************)
(* Characters, values, dicts                                               *)
(***************************************************************************)
Letters == {"x", "y", "N", "o", "n", "e"}

Digits == {"0", "1", "2"}

\* str(None)
NoneStr == <<"N", "o", "n", "e">>

NoneV == [t |-> "none", s |-> NoneStr]

IntV(d) == [t |-> "int", s |-> <<d>>]

StrV(chars) == [t |-> "str", s |-> chars]

EmptyDict == [k \in {} |-> NoneV]

\* an optional string: text_spec=None, text=None
NoText == [has |-> FALSE, s |-> <<>>]

SomeText(chars) == [has |-> TRUE, s |-> chars]

\* dict.update(): entries of m2 replace entries of m1
DictUpdate(m1, m2) ==
  [k \in (DOMAIN m1) \cup (DOMAIN m2) |-> IF k \in DOMAIN m2 THEN m2[k] ELSE m1[k]]

\* dict.get(name, None)
DictGet(m, name) == IF name \in DOMAIN m THEN m[name] ELSE NoneV

(***************************************************************************)
(* str.format with keyword arguments m, character by character.  The      *)
(* result is [ok, val, err]: the formatted string, or the type of the      *)
(* exception that str.format raises.                                       *)
(***************************************************************************)
FmtOk(chars) == [ok |-> TRUE, val |-> chars, err |-> "none"]

FmtErr(type) == [ok |-> FALSE, val |-> <<>>, err |-> type]

\* first index k >= i with s[k] a brace, or Len(s)+1
RECURSIVE NextBrace(_, _)
NextBrace(s, i) ==
  IF i > Len(s) THEN i
  ELSE IF s[i] \in {"{", "}"} THEN i
  ELSE NextBrace(s, i + 1)

AllDigits(name) == \A j \in 1..Len(name) : name[j] \in Digits

RECURSIVE FormatFrom(_, _, _, _)
FormatFrom(s, i, m, acc) ==
  IF i > Len(s) THEN FmtOk(acc)
  ELSE IF s[i] = "{" THEN
    IF i = Len(s) THEN FmtErr("ValueError")
    ELSE IF s[i + 1] = "{" THEN FormatFrom(s, i + 2, m, Append(acc, "{"))
    ELSE LET k == NextBrace(s, i + 1)
             name == SubSeq(s, i + 1, k - 1)
         IN IF k > Len(s) \/ s[k] = "{" THEN FmtErr("ValueError")
            ELSE IF name = <<>> \/ AllDigits(name) THEN FmtErr("IndexError")
            ELSE IF name \in DOMAIN m THEN FormatFrom(s, k + 1, m, acc \o m[name].s)
            ELSE FmtErr("KeyError")
  ELSE IF s[i] = "}" THEN
    IF i < Len(s) /\ s[i + 1] = "}" THEN FormatFrom(s, i + 2, m, Append(acc, "}"))
    ELSE FmtErr("ValueError")
  ELSE FormatFrom(s, i + 1, m, Append(acc, s[i]))

PyFormat(s, m) == FormatFrom(s, 1, m, <<>>)

\* s is a format string: str.format raises no ValueError for it, whatever
\* its arguments
RECURSIVE IsFormatString(_, _)
IsFormatString(s, i) ==
  IF i > Len(s) THEN TRUE
  ELSE IF s[i] = "{" THEN
    IF i = Len(s) THEN FALSE
    ELSE IF s[i + 1] = "{" THEN IsFormatString(s, i + 2)
    ELSE LET k == NextBrace(s, i + 1)
         IN k <= Len(s) /\ s[k] = "}" /\ IsFormatString(s, k + 1)
  ELSE IF s[i] = "}" THEN i < Len(s) /\ s[i + 1] = "}" /\ IsFormatString(s, i + 2)
  ELSE IsFormatString(s, i + 1)

(***************************************************************************)
(* re.finditer over text_spec with the pattern "brace, identifier,         *)
(* brace": the names of the non-overlapping matches, left to right.        *)
(***************************************************************************)
\* last index of the run of identifier characters that starts at i
RECURSIVE IdentRunEnd(_, _)
IdentRunEnd(s, j) ==
  IF j + 1 <= Len(s) /\ s[j + 1] \in Letters \cup Digits THEN IdentRunEnd(s, j + 1)
  ELSE j

RECURSIVE FindNames(_, _)
FindNames(s, i) ==
  IF i > Len(s) THEN {}
  ELSE IF s[i] = "{" /\ i + 1 <= Len(s) /\ s[i + 1] \in Letters THEN
    LET j == IdentRunEnd(s, i + 1)
    IN IF j + 1 <= Len(s) /\ s[j + 1] = "}"
       THEN {SubSeq(s, i + 1, j)} \cup FindNames(s, j + 2)
       ELSE FindNames(s, i + 1)
  ELSE FindNames(s, i + 1)

(***************************************************************************)
(* Tracer.gather_params                                                    *)
(***************************************************************************)
\* text_spec is None or '{' not in text_spec
NoBrace(text_spec) == (~text_spec.has) \/ (\A i \in 1..Len(text_spec.s) : text_spec.s[i] # "{")

\* the names for which gather_params calls lookup_cb
gather_lookups(text_spec, params_map) ==
  IF NoBrace(text_spec) THEN {}
  ELSE FindNames(text_spec.s, 1) \ DOMAIN params_map

\* gather_params asking the callback for every placeholder, also for the
\* names of params_map
gather_params_FallbackWins(text_spec, params_map, lookup_cb) ==
  IF NoBrace(text_spec) THEN params_map
  ELSE LET fmt_params == DictUpdate([k \in FindNames(text_spec.s, 1) |-> NoneV], params_map)
       IN [k \in DOMAIN fmt_params |->
             IF k \in DOMAIN lookup_cb THEN lookup_cb[k] ELSE fmt_params[k]]

\* gather_params leaving out the names the callback finds nothing for
gather_params_OmitsMissing(text_spec, params_map, lookup_cb) ==
  IF NoBrace(text_spec) THEN params_map
  ELSE LET fmt_params == DictUpdate([k \in FindNames(text_spec.s, 1) |-> NoneV], params_map)
           found == {k \in DOMAIN fmt_params : k \in DOMAIN params_map \/ lookup_cb[k] # NoneV}
       IN [k \in found |->
             IF k \in DOMAIN params_map THEN fmt_params[k] ELSE lookup_cb[k]]

\* lookup_cb is the callback as a function of the name it is called with
gather_params(text_spec, params_map, lookup_cb) ==
  IF NoBrace(text_spec) THEN params_map
  ELSE LET fmt_params == DictUpdate([k \in FindNames(text_spec.s, 1) |-> NoneV], params_map)
       IN [k \in DOMAIN fmt_params |->
             IF k \in DOMAIN params_map THEN fmt_params[k] ELSE lookup_cb[k]]

\* the names a callback of gather_params can be called with
Callable(text_spec) == IF text_spec.has THEN FindNames(text_spec.s, 1) ELSE {}

(***************************************************************************)
(* Exceptions.  A raw failure has a type and a message; a                  *)
(* StackTracerException is its chain of nodes, outermost first: node i+1   *)
(* is the sub_exc of node i, the last node has sub_exc=None.               *)
(***************************************************************************)
NoExc == [kind |-> "none", type |-> "none", msg |-> <<>>, chain |-> <<>>]

RawExc(type, msg) == [kind |-> "raw", type |-> type, msg |-> msg, chain |-> <<>>]

SteExc(chain) == [kind |-> "ste", type |-> "StackTracerException", msg |-> <<>>, chain |-> chain]

\* StackTracerException(sub_exc, text, params_map): one node of a chain
Node(text, params_map) == [text |-> text, params |-> params_map]

\* Python's built-in exception hierarchy, as far as the model raises it
Bases(type) ==
  CASE type = "KeyError" -> {"KeyError", "LookupError", "Exception"}
    [] type = "IndexError" -> {"IndexError", "LookupError", "Exception"}
    [] type = "LookupError" -> {"LookupError", "Exception"}
    [] type = "TypeError" -> {"TypeError", "Exception"}
    [] type = "ValueError" -> {"ValueError", "Exception"}
    [] type = "StackTracerException" -> {"StackTracerException", "Exception"}
    [] OTHER -> {"Exception"}

\* isinstance(exc, types)
isinstance(e, types) == Bases(e.type) \cap types # {}

\* traceback.format_exc(): the text of the failure being handled; the
\* first character stands for the traceback header naming the type
format_exc(e) == <<e.type>> \o e.msg

\* an optional tuple of exception types (a throws attribute may not exist)
NoThrows == [has |-> FALSE, set |-> {}]

Throws(types) == [has |-> TRUE, set |-> types]

(***************************************************************************)
(* The closures throws(exc) of the four wrappers                           *)
(***************************************************************************)
\* the first list/tuple among the arguments of scope decides
RECURSIVE args_throws(_, _, _)
args_throws(e, args, i) ==
  IF i > Len(args) THEN FALSE
  ELSE IF args[i].tag = "seq" THEN isinstance(e, args[i].q)
  ELSE args_throws(e, args, i + 1)

traced_throws(e, cls) == cls.has /\ isinstance(e, cls.set)

traced_inst_throws(e, inst, cls) ==
  isinstance(e, inst) \/ (cls.has /\ isinstance(e, cls.set))

scope_throws(e, cls, args) ==
  IF cls.has /\ isinstance(e, cls.set) THEN TRUE ELSE args_throws(e, args, 1)

scope_inst_throws(e, inst, cls, args) ==
  IF isinstance(e, inst) \/ (cls.has /\ isinstance(e, cls.set)) THEN TRUE
  ELSE args_throws(e, args, 1)

(***************************************************************************)
(* Tracer.parse_args, lookup_stack_value, lookup_args_value                *)
(***************************************************************************)
StrArg(chars) == [tag |-> "str", s |-> chars, d |-> EmptyDict, q |-> {}]

DictArg(d) == [tag |-> "dict", s |-> <<>>, d |-> d, q |-> {}]

SeqArg(types) == [tag |-> "seq", s |-> <<>>, d |-> EmptyDict, q |-> types]

RECURSIVE parse_from(_, _, _, _)
parse_from(args, i, text_spec, params_map) ==
  IF i > Len(args) THEN [text_spec |-> text_spec, params_map |-> params_map]
  ELSE IF args[i].tag = "dict" THEN parse_from(args, i + 1, text_spec, args[i].d)
  ELSE IF args[i].tag = "str" THEN parse_from(args, i + 1, SomeText(args[i].s), params_map)
  ELSE parse_from(args, i + 1, text_spec, params_map)

parse_args(args) == parse_from(args, 1, NoText, EmptyDict)

\* trace[-i] of a Python list held as a 1-based sequence
NegIndex(trace, i) == IF i = 0 THEN trace[1] ELSE trace[Len(trace) - i + 1]

\* for i in reversed(range(0, len(trace))): i runs from len-1 down to 0
RECURSIVE lookup_stack_from(_, _, _)
lookup_stack_from(name, trace, i) ==
  IF i < 0 THEN NoneV
  ELSE IF name \in DOMAIN NegIndex(trace, i) THEN NegIndex(trace, i)[name]
  ELSE lookup_stack_from(name, trace, i - 1)

\* trace is inspect.trace(): the frames from the handling frame (first) to
\* the frame that raised (last); a frame is the dict of its locals
lookup_stack_value(name, trace) == lookup_stack_from(name, trace, Len(trace) - 1)

\* args_dict with the positional binding taking precedence over the keywords
args_dict_PositionalWins(args_name, args, kwargs) ==
  LET n == IF Len(args_name) < Len(args) THEN Len(args_name) ELSE Len(args)
      zipped == [k \in {args_name[i] : i \in 1..n} |->
                   args[CHOOSE i \in 1..n : args_name[i] = k]]
  IN DictUpdate(kwargs, zipped)

\* OrderedDict(list(zip(args_name, args)) + list(kwargs.items()))
args_dict(args_name, args, kwargs) ==
  LET n == IF Len(args_name) < Len(args) THEN Len(args_name) ELSE Len(args)
      zipped == [k \in {args_name[i] : i \in 1..n} |->
                   args[CHOOSE i \in 1..n : args_name[i] = k]]
  IN DictUpdate(zipped, kwargs)

lookup_args_value(name, args_name, args, kwargs) ==
  DictGet(args_dict(args_name, args, kwargs), name)

(***************************************************************************)
(* Tracer.mk_traced_exc, Tracer.mk_scope_exc: what the layer raises, given *)
(* the chain it received.  A failing str.format leaves as a raw failure.   *)
(***************************************************************************)
\* mk_traced_exc not borrowing the values of the exception it received
mk_traced_exc_IgnoresInner(chain, text_spec, args_name, args, kwargs) ==
  LET fmt_params == gather_params(text_spec, EmptyDict,
                      [name \in Callable(text_spec) |->
                         lookup_args_value(name, args_name, args, kwargs)])
      text == PyFormat(text_spec.s, fmt_params)
  IN IF fmt_params # EmptyDict
     THEN IF text.ok
          THEN SteExc(<<Node(SomeText(text.val), EmptyDict)>> \o chain)
          ELSE RawExc(text.err, <<>>)
     ELSE SteExc(<<Node(text_spec, EmptyDict)>> \o chain)

mk_traced_exc(chain, text_spec, args_name, args, kwargs) ==
  LET params_map == chain[1].params
      fmt_params == gather_params(text_spec, params_map,
                      [name \in Callable(text_spec) |->
                         lookup_args_value(name, args_name, args, kwargs)])
      text == PyFormat(text_spec.s, fmt_params)
  IN IF fmt_params # EmptyDict
     THEN IF text.ok
          THEN SteExc(<<Node(SomeText(text.val), EmptyDict)>> \o chain)
          ELSE RawExc(text.err, <<>>)
     ELSE SteExc(<<Node(text_spec, EmptyDict)>> \o chain)

\* mk_scope_exc raising a node that does not link the chain it received
mk_scope_exc_DropsInner(chain, args, trace) ==
  LET parsed == parse_args(args)
      fmt_params == gather_params(parsed.text_spec, parsed.params_map,
                      [name \in Callable(parsed.text_spec) |->
                         lookup_stack_value(name, trace)])
      text == PyFormat(parsed.text_spec.s, fmt_params)
  IN IF ~parsed.text_spec.has
     THEN SteExc(<<Node(NoText, parsed.params_map)>>)
     ELSE IF text.ok
          THEN SteExc(<<Node(SomeText(text.val), fmt_params)>>)
          ELSE RawExc(text.err, <<>>)

mk_scope_exc(chain, args, trace) ==
  LET parsed == parse_args(args)
      fmt_params == gather_params(parsed.text_spec, parsed.params_map,
                      [name \in Callable(parsed.text_spec) |->
                         lookup_stack_value(name, trace)])
      text == PyFormat(parsed.text_spec.s, fmt_params)
  IN IF ~parsed.text_spec.has
     THEN SteExc(<<Node(NoText, parsed.params_map)>> \o chain)
     ELSE IF text.ok
          THEN SteExc(<<Node(SomeText(text.val), fmt_params)>> \o chain)
          ELSE RawExc(text.err, <<>>)

\* StackTracerException(text=traceback.format_exc())
leaf_exc(e) == <<Node(SomeText(format_exc(e)), EmptyDict)>>

\* the chain handed to mk_traced_exc / mk_scope_exc
Received(e) == IF e.kind = "ste" THEN e.chain ELSE leaf_exc(e)

(***************************************************************************)
(* StackTracerException.format: the nested dict, outermost level first.    *)
(* A level is [keys, text]; 'sub_exc' in keys means the next level is its  *)
(* value.  The result is [ok, val] or the failure of str.format.           *)
(***************************************************************************)
RECURSIVE format_from(_, _)
format_from(chain, i) ==
  LET node == chain[i]
      has_text == node.text.has /\ node.text.s # <<>>
      text == IF has_text /\ node.params # EmptyDict
              THEN PyFormat(node.text.s, node.params)
              ELSE FmtOk(node.text.s)
      sub == IF i < Len(chain) THEN format_from(chain, i + 1) ELSE FmtOk(<<>>)
      keys == (IF has_text THEN {"text"} ELSE {}) \cup
              (IF i < Len(chain) THEN {"sub_exc"} ELSE {})
  IN IF ~text.ok THEN text
     ELSE IF ~sub.ok THEN sub
     ELSE FmtOk(<<[keys |-> keys, text |-> text.val]>> \o sub.val)

\* assert fmt in ['dict', 'dict-short']
format(chain, fmt) ==
  IF fmt \notin {"dict", "dict-short"} THEN FmtErr("AssertionError")
  ELSE format_from(chain, 1)

(***************************************************************************)
(* What one layer raises for what its body raised (the try/except of the   *)
(* four wrappers)                                                          *)
(***************************************************************************)
traced_wrapped_f(e, cls, text_spec, args_name, args, kwargs) ==
  IF e.kind = "ste" THEN mk_traced_exc(e.chain, text_spec, args_name, args, kwargs)
  ELSE IF traced_throws(e, cls) THEN e
  ELSE mk_traced_exc(leaf_exc(e), text_spec, args_name, args, kwargs)

\* traced_inst_wrapped_f without the throws test
traced_inst_wrapped_f_AlwaysWraps(e, inst, cls, text_spec, args_name, args, kwargs) ==
  mk_traced_exc(Received(e), text_spec, args_name, args, kwargs)

traced_inst_wrapped_f(e, inst, cls, text_spec, args_name, args, kwargs) ==
  IF e.kind = "ste" THEN mk_traced_exc(e.chain, text_spec, args_name, args, kwargs)
  ELSE IF traced_inst_throws(e, inst, cls) THEN e
  ELSE mk_traced_exc(leaf_exc(e), text_spec, args_name, args, kwargs)

scope_handle(e, cls, args, trace) ==
  IF e.kind = "ste" THEN mk_scope_exc(e.chain, args, trace)
  ELSE IF scope_throws(e, cls, args) THEN e
  ELSE mk_scope_exc(leaf_exc(e), args, trace)

\* __scope_inst applying the throws test to whatever its body raised,
\* a StackTracerException included
scope_inst_handle_ThrowsFirst(e, inst, cls, args, trace) ==
  IF scope_inst_throws(e, inst, cls, args) THEN e
  ELSE mk_scope_exc(Received(e), args, trace)

scope_inst_handle(e, inst, cls, args, trace) ==
  IF e.kind = "ste" THEN mk_scope_exc(e.chain, args, trace)
  ELSE IF scope_inst_throws(e, inst, cls, args) THEN e
  ELSE mk_scope_exc(leaf_exc(e), args, trace)

(***************************************************************************)
(* Inputs                                                                  *)
(***************************************************************************)
X == <<"x">>

Y == <<"y">>

I1 == IntV("1")

I2 == IntV("2")

\* a string value that looks like a placeholder
SB == StrV(<<"{", "y", "}">>)

\* 'x={x}', '{x}={y}', '='
Tx == <<"x", "=", "{", "x", "}">>

Txy == <<"{", "x", "}", "=", "{", "y", "}">>

Tlit == <<"=">>

Templates == {Tx, Txy, Tlit}

RaisedTypes == {"KeyError", "IndexError"}

Msg == <<"1">>

\* a decorated function and one call of it: the template, the declared
\* parameter names (inspect.getargspec(f)[0]), the positional and the
\* keyword arguments.  collide: a keyword repeats a positional parameter, so
\* that f(*args, **kwargs) raises TypeError inside wrapped_f and the body of
\* f never runs.
TracedCall(t, names, args, kwargs, collide) ==
  [text_spec |-> SomeText(t), args_name |-> names, args |-> args,
   kwargs |-> kwargs, collide |-> collide]

TracedCalls ==
  { TracedCall(Txy, <<X, Y>>, <<I1, I2>>, EmptyDict, FALSE),
    TracedCall(Txy, <<Y, X>>, <<I1>>, X :> I2, FALSE),
    TracedCall(Txy, <<X>>, <<SB>>, EmptyDict, FALSE),
    TracedCall(Tx, <<X>>, <<I1, I2>>, EmptyDict, FALSE),
    TracedCall(Tx, <<Y>>, <<I1>>, EmptyDict, FALSE),
    TracedCall(Tlit, <<X>>, <<I1>>, EmptyDict, FALSE),
    TracedCall(Tx, <<X>>, <<I1>>, X :> I2, TRUE) }

\* The generator frame of scope is trace[0].  Its locals (cls or self, args,
\* throws, e, exc_wrapper) and those of the other frames of this library
\* are not named by any template of the model, so these frames bind none of
\* the modelled names; they are kept in the trace, which keeps the indexes.
GenFrame == EmptyDict

\* the with block is in a frame binding x=1, y=2, and the failure is raised there
TrBody == <<GenFrame, (X :> I1) @@ (Y :> I2)>>

\* the with block is in a frame binding x=1; it calls, through a frame
\* binding nothing, a function whose frame binds x=2, y=2 and raises
TrDeep == <<GenFrame, X :> I1, EmptyDict, (X :> I2) @@ (Y :> I2)>>

\* no frame binds a name
TrNone == <<GenFrame, EmptyDict>>

ScopeCall(args, trace) == [args |-> args, trace |-> trace]

ScopeCalls ==
  { ScopeCall(<<>>, TrBody),
    ScopeCall(<<StrArg(Txy)>>, TrDeep),
    ScopeCall(<<StrArg(Txy)>>, TrNone),
    ScopeCall(<<StrArg(Txy), DictArg(X :> I2)>>, TrBody),
    ScopeCall(<<DictArg((X :> I2) @@ (Y :> I1))>>, TrBody),
    ScopeCall(<<DictArg(X :> SB), StrArg(Tx)>>, TrBody),
    ScopeCall(<<DictArg((X :> SB) @@ (Y :> I1)), StrArg(Tx)>>, TrBody),
    ScopeCall(<<StrArg(Tx), SeqArg({"KeyError"})>>, TrBody),
    ScopeCall(<<SeqArg({"IndexError"}), StrArg(Tlit), SeqArg({"KeyError"})>>, TrBody) }

\* the throws attribute of the class a static method is used through
ClassThrows == {NoThrows, Throws({"IndexError"})}

\* Tracer(throws=...) and the throws attribute of the instance's class
InstThrows ==
  { [inst |-> {}, cls |-> NoThrows],
    [inst |-> {"KeyError"}, cls |-> Throws({"IndexError"})],
    [inst |-> {"StackTracerException", "LookupError"}, cls |-> NoThrows] }

\* the tuple of docstring pattern 3, passed to traced
CallSiteThrows == {{"KeyError"}}

(***************************************************************************)
(* State                                                                   *)
(*   pc        "body", "unwind", "reported"; "gather", "gathered"          *)
(*   exc       the exception in flight                                     *)
(*   orig      the failure the body raised                                 *)
(*   depth     annotation sites (traced or scope) the exception has left   *)
(*   last      the layer left last: its inputs, what it received (input),  *)
(*             what it did (outcome), the dict gather_params returned and  *)
(*             the names it called the fallback for                        *)
(*   out       what format returned to the caller                          *)
(*   nSTE      StackTracerExceptions constructed so far                    *)
(*   nCaptured layers that did not let a raw failure pass                  *)
(*   gin, gout input and result of a single gather_params call            *)
(***************************************************************************)
NoLayer ==
  [kind |-> "none", form |-> "none", text_spec |-> NoText, explicit |-> EmptyDict,
   args_name |-> <<>>, args |-> <<>>, kwargs |-> EmptyDict,
   sargs |-> <<>>, trace |-> <<>>, inst |-> {}, cls |-> NoThrows,
   input |-> NoExc, outcome |-> "none", fmt_params |-> EmptyDict, lookups |-> {}]

NoOut == [done |-> FALSE, ok |-> FALSE, val |-> <<>>, err |-> "none"]

NoGin == [text_spec |-> NoText, params_map |-> EmptyDict, fb |-> "none"]

NoGout == [done |-> FALSE, map |-> EmptyDict, lookups |-> {}]

Outcome(e, r) ==
  IF r.kind = "ste" THEN "wrap" ELSE IF e.kind = "raw" /\ r = e THEN "pass" ELSE "error"

\* constructions of StackTracerException while the layer handles e
Built(e, r) ==
  IF Outcome(e, r) = "pass" THEN 0
  ELSE (IF e.kind = "raw" THEN 1 ELSE 0) + (IF r.kind = "ste" THEN 1 ELSE 0)

Init ==
  /\ pc = "body"
  /\ exc = NoExc
  /\ orig = NoExc
  /\ depth = 0
  /\ last = NoLayer
  /\ out = NoOut
  /\ nSTE = 0
  /\ nCaptured = 0
  /\ gin = NoGin
  /\ gout = NoGout

\* the innermost body raises
RaiseFailure ==
  /\ pc = "body"
  /\ \E type \in RaisedTypes :
       /\ exc' = RawExc(type, Msg)
       /\ orig' = RawExc(type, Msg)
  /\ pc' = "unwind"
  /\ UNCHANGED <<depth, last, out, nSTE, nCaptured, gin, gout>>

\* Tracer.traced(text_spec, throws) as in pattern 3 of the module docstring:
\* traced takes text_spec only, the call raises TypeError where the
\* decorator is applied
TracedExtraArg ==
  /\ pc = "body"
  /\ \E t \in Templates, types \in CallSiteThrows, form \in {"static", "inst"} :
       last' = [NoLayer EXCEPT !.kind = "traced", !.form = form,
                               !.text_spec = SomeText(t),
                               !.sargs = <<StrArg(t), SeqArg(types)>>,
                               !.outcome = "TypeError"]
  /\ exc' = RawExc("TypeError", <<>>)
  /\ orig' = RawExc("TypeError", <<>>)
  /\ pc' = "unwind"
  /\ depth' = depth + 1
  /\ UNCHANGED <<out, nSTE, nCaptured, gin, gout>>

\* the layer received e from its body and raises r
Leave(layer, e, r) ==
  /\ exc' = r
  /\ last' = IF Outcome(e, r) = "pass"
             THEN [layer EXCEPT !.input = e, !.outcome = "pass",
                                !.fmt_params = EmptyDict, !.lookups = {}]
             ELSE [layer EXCEPT !.input = e, !.outcome = Outcome(e, r)]
  /\ depth' = depth + 1
  /\ nSTE' = nSTE + Built(e, r)
  /\ nCaptured' = nCaptured + (IF Outcome(e, r) = "pass" THEN 0 ELSE 1)
  /\ pc' = "unwind"
  /\ orig' = IF pc = "body" THEN e ELSE orig
  /\ UNCHANGED <<out, gin, gout>>

CanLeave == pc = "unwind" /\ depth < MaxDepth /\ exc.kind \in {"raw", "ste"}

\* what the wrapped call of c raises into wrapped_f, and when
BodyExc(c) == IF c.collide THEN RawExc("TypeError", Msg) ELSE exc

CallPossible(c) == IF c.collide THEN pc = "body" ELSE CanLeave

TracedLayerRec(form, c, inst, cls) ==
  LET explicit == Received(BodyExc(c))[1].params
  IN [NoLayer EXCEPT !.kind = "traced", !.form = form, !.text_spec = c.text_spec,
                     !.explicit = explicit,
                     !.args_name = c.args_name, !.args = c.args, !.kwargs = c.kwargs,
                     !.inst = inst, !.cls = cls,
                     !.fmt_params = gather_params(c.text_spec, explicit,
                        [name \in Callable(c.text_spec) |->
                           lookup_args_value(name, c.args_name, c.args, c.kwargs)]),
                     !.lookups = gather_lookups(c.text_spec, explicit)]

ScopeLayerRec(form, c, inst, cls) ==
  LET parsed == parse_args(c.args)
  IN [NoLayer EXCEPT !.kind = "scope", !.form = form, !.text_spec = parsed.text_spec,
                     !.explicit = parsed.params_map,
                     !.sargs = c.args, !.trace = c.trace,
                     !.inst = inst, !.cls = cls,
                     !.fmt_params = gather_params(parsed.text_spec, parsed.params_map,
                        [name \in Callable(parsed.text_spec) |->
                           lookup_stack_value(name, c.trace)]),
                     !.lookups = gather_lookups(parsed.text_spec, parsed.params_map)]

\* @Tracer.traced(text_spec) or @Subclass.traced(text_spec)
TracedStatic ==
  \E c \in TracedCalls, cls \in ClassThrows :
    /\ CallPossible(c)
    /\ Leave(TracedLayerRec("static", c, {}, cls), BodyExc(c),
             traced_wrapped_f(BodyExc(c), cls, c.text_spec, c.args_name, c.args, c.kwargs))

\* @tracer.traced(text_spec)
TracedInst ==
  \E c \in TracedCalls, th \in InstThrows :
    /\ CallPossible(c)
    /\ Leave(TracedLayerRec("inst", c, th.inst, th.cls), BodyExc(c),
             traced_inst_wrapped_f(BodyExc(c), th.inst, th.cls, c.text_spec,
                                   c.args_name, c.args, c.kwargs))

\* with Tracer.scope(*args) or with Subclass.scope(*args)
ScopeStatic ==
  /\ CanLeave
  /\ \E c \in ScopeCalls, cls \in ClassThrows :
       Leave(ScopeLayerRec("static", c, {}, cls), exc,
             scope_handle(exc, cls, c.args, c.trace))

\* with tracer.scope(*args)
ScopeInst ==
  /\ CanLeave
  /\ \E c \in ScopeCalls, th \in InstThrows :
       Leave(ScopeLayerRec("inst", c, th.inst, th.cls), exc,
             scope_inst_handle(exc, th.inst, th.cls, c.args, c.trace))

\* the caller catches the StackTracerException and renders it
Format ==
  /\ pc = "unwind"
  /\ exc.kind = "ste"
  /\ \E fmt \in {"dict", "dict-short"} :
       LET r == format(exc.chain, fmt)
       IN out' = [done |-> TRUE, ok |-> r.ok, val |-> r.val, err |-> r.err]
  /\ pc' = "reported"
  /\ UNCHANGED <<exc, orig, depth, last, nSTE, nCaptured, gin, gout>>

Next ==
  \/ RaiseFailure
  \/ TracedExtraArg
  \/ TracedStatic
  \/ TracedInst
  \/ ScopeStatic
  \/ ScopeInst
  \/ Format

Spec == Init /\ [][Next]_vars

(***************************************************************************)
(* gather_params on its own: every format string up to MaxLen characters,  *)
(* an explicit map and a callback.                                         *)
(***************************************************************************)
GChars == {"{", "}", "x", "0", "="}

GStrings == {t \in UNION {[1..k -> GChars] : k \in 0..MaxLen} : IsFormatString(t, 1)}

GMaps == {EmptyDict, X :> I1}

\* a callback that finds nothing, and one that finds 2 for every name
Fallbacks == {"none", "two"}

Fallback(fb, text_spec) ==
  [name \in Callable(text_spec) |-> IF fb = "none" THEN NoneV ELSE I2]

InitGather ==
  /\ pc = "gather"
  /\ gin \in [text_spec : {NoText} \cup {SomeText(t) : t \in GStrings},
               params_map : GMaps, fb : Fallbacks]
  /\ gout = NoGout
  /\ exc = NoExc
  /\ orig = NoExc
  /\ depth = 0
  /\ last = NoLayer
  /\ out = NoOut
  /\ nSTE = 0
  /\ nCaptured = 0

Gather ==
  /\ pc = "gather"
  /\ gout' = [done |-> TRUE,
              map |-> gather_params(gin.text_spec, gin.params_map,
                                    Fallback(gin.fb, gin.text_spec)),
              lookups |-> gather_lookups(gin.text_spec, gin.params_map)]
  /\ pc' = "gathered"
  /\ UNCHANGED <<exc, orig, depth, last, out, nSTE, nCaptured, gin>>

NextGather == Gather

SpecGather == InitGather /\ [][NextGather]_vars

(***************************************************************************)
(* Properties                                                              *)
(***************************************************************************)
\* the names of the placeholders of a template: identifiers between single
\* braces, doubled braces being escapes
RECURSIVE Placeholders(_, _)
Placeholders(s, i) ==
  IF i > Len(s) THEN {}
  ELSE IF s[i] \in {"{", "}"} /\ i < Len(s) /\ s[i + 1] = s[i] THEN Placeholders(s, i + 2)
  ELSE IF s[i] = "{" /\ i < Len(s) /\ s[i + 1] \in Letters THEN
    LET j == IdentRunEnd(s, i + 1)
    IN IF j < Len(s) /\ s[j + 1] = "}"
       THEN {SubSeq(s, i + 1, j)} \cup Placeholders(s, j + 2)
       ELSE Placeholders(s, i + 1)
  ELSE Placeholders(s, i + 1)

\* a template of literal text and placeholders, each placeholder replaced by
\* the str() of the value bind gives its name
RECURSIVE Substitute(_, _, _)
Substitute(s, i, bind) ==
  IF i > Len(s) THEN <<>>
  ELSE IF s[i] = "{" /\ i < Len(s) /\ s[i + 1] \in Letters
          /\ IdentRunEnd(s, i + 1) < Len(s) /\ s[IdentRunEnd(s, i + 1) + 1] = "}"
  THEN bind[SubSeq(s, i + 1, IdentRunEnd(s, i + 1))].s
         \o Substitute(s, IdentRunEnd(s, i + 1) + 2, bind)
  ELSE <<s[i]>> \o Substitute(s, i + 1, bind)

\* the argument a call binds to a name: the keyword of that name, else the
\* positional argument at the place of that name among the declared
\* parameters, else None
BoundArgument(l, name) ==
  IF name \in DOMAIN l.kwargs THEN l.kwargs[name]
  ELSE IF \E i \in 1..Len(l.args_name) : i <= Len(l.args) /\ l.args_name[i] = name
  THEN l.args[CHOOSE i \in 1..Len(l.args_name) : i <= Len(l.args) /\ l.args_name[i] = name]
  ELSE NoneV

\* the last layer was a traced one whose body raised a raw failure that was
\* not let through
TracedCapturedRaw ==
  /\ last.kind = "traced"
  /\ last.input.kind = "raw"
  /\ last.outcome \notin {"pass", "TypeError"}

\* C1: a traced callable whose body raises a raw failure that is not
\* pass-through raises a chain of two nodes: the outer text is the template
\* with each placeholder replaced by the call argument of that name (keyword
\* first, else positional by declared parameter order, else None), and the
\* inner text is the text of the original failure; format('dict') renders
\* exactly these two texts.
C1_TracedRendersArguments ==
  TracedCapturedRaw =>
    LET text == Substitute(last.text_spec.s, 1,
                  [n \in Placeholders(last.text_spec.s, 1) |-> BoundArgument(last, n)])
    IN /\ last.outcome = "wrap"
       /\ Len(exc.chain) = 2
       /\ exc.chain[1].text = SomeText(text)
       /\ exc.chain[2].text = SomeText(format_exc(last.input))
       /\ out.done =>
            /\ out.ok
            /\ out.val = << [keys |-> {"text", "sub_exc"}, text |-> text],
                            [keys |-> {"text"}, text |-> format_exc(last.input)] >>

\* C1 witness: 'x={x}' on f(x) called as f(1, x=2), the keyword colliding
\* with the positional argument, rendered as 'x=2'
C1_Witness ==
  /\ TracedCapturedRaw
  /\ out.done
  /\ X \in DOMAIN last.kwargs
  /\ last.args_name = <<X>>
  /\ out.val[1].text = <<"x", "=", "2">>

\* C2 (as claimed): the chain raised has exactly as many nodes as layers
\* captured the failure.
C2_NodesEqualLayers == exc.kind = "ste" => Len(exc.chain) = nCaptured

\* C2 (amended): the chain raised has one node per capturing layer and one
\* more, the leaf holding the text of the original failure; layers that let
\* the raw failure pass add no node, and as long as the failure is raw no
\* layer has captured it.
C2_NodesAreLayersPlusLeaf ==
  /\ exc.kind = "ste" => Len(exc.chain) = nCaptured + 1
  /\ exc.kind = "raw" => nCaptured = 0
  /\ nCaptured <= depth

\* C2 witness: three layers left, one of which let the raw failure pass:
\* two capturing layers, three nodes
C2_Witness ==
  /\ depth = 3
  /\ nCaptured = 2
  /\ exc.kind = "ste"
  /\ Len(exc.chain) = 3
  /\ orig.kind = "raw"
  /\ orig.type # "TypeError"

\* the types the throws closure of the last layer tests a raw failure
\* against: the instance's throws, the class's throws, and for scope the
\* first sequence among its arguments
RECURSIVE FirstSeq(_, _)
FirstSeq(args, i) ==
  IF i > Len(args) THEN {}
  ELSE IF args[i].tag = "seq" THEN args[i].q
  ELSE FirstSeq(args, i + 1)

PassThroughSet(l) ==
  l.inst \cup (IF l.cls.has THEN l.cls.set ELSE {})
         \cup (IF l.kind = "scope" THEN FirstSeq(l.sargs, 1) ELSE {})

\* the last layer received a raw failure of a type in its pass-through set
ReceivedPassThrough ==
  /\ last.kind \in {"traced", "scope"}
  /\ last.outcome # "TypeError"
  /\ last.input.kind = "raw"
  /\ Bases(last.input.type) \cap PassThroughSet(last) # {}

\* C3: a layer whose body raises a raw failure of a type in the layer's
\* pass-through set raises that same failure, type and message unchanged,
\* and constructs no StackTracerException.
C3_PassThroughUnchanged ==
  ReceivedPassThrough =>
    /\ exc = last.input
    /\ exc = orig
    /\ nSTE = 0

\* C3 witness: a second layer lets an IndexError pass that it matches only
\* through a base class
C3_Witness ==
  /\ ReceivedPassThrough
  /\ depth = 2
  /\ last.input.type = "IndexError"
  /\ "LookupError" \in last.inst
  /\ exc = RawExc("IndexError", Msg)

\* the last layer was a scope with a template that did not let its
\* exception pass
ScopeWithTemplate ==
  /\ last.kind = "scope"
  /\ last.text_spec.has
  /\ last.outcome # "pass"

\* C4: in a scope layer every name of the explicit value map resolves to
\* the explicit value, the fallback is not called for it, and the message
\* of the layer is the template with these values, whatever the frames bind.
C4_ExplicitValuesWin ==
  ScopeWithTemplate =>
    /\ last.outcome = "wrap"
    /\ \A n \in DOMAIN last.explicit :
         /\ n \in DOMAIN last.fmt_params
         /\ last.fmt_params[n] = last.explicit[n]
         /\ n \notin last.lookups
    /\ exc.chain[1].params = last.fmt_params
    /\ exc.chain[1].text =
         SomeText(Substitute(last.text_spec.s, 1,
           [n \in Placeholders(last.text_spec.s, 1) |->
              IF n \in DOMAIN last.explicit THEN last.explicit[n] ELSE last.fmt_params[n]]))

\* C4 witness: scope('{x}={y}', {'x': 2}) in a frame binding x=1, y=2: the
\* message is '2=2'
C4_Witness ==
  /\ ScopeWithTemplate
  /\ X \in DOMAIN last.explicit
  /\ last.explicit[X] = I2
  /\ X \in DOMAIN last.trace[2]
  /\ last.trace[2][X] = I1
  /\ exc.chain[1].text = SomeText(<<"2", "=", "2">>)

\* the binding of name in the most deeply nested frame of the trace that
\* binds it, None when no frame does
InnermostBinding(name, trace) ==
  LET binding == {i \in 1..Len(trace) : name \in DOMAIN trace[i]}
  IN IF binding = {} THEN NoneV
     ELSE trace[CHOOSE i \in binding : \A j \in binding : j <= i][name]

\* C5: the fallback of a scope layer returns, for each name it is asked,
\* the binding of the most deeply nested searched frame that binds the name,
\* and None only when no searched frame binds it.
C5_InnermostFrameFirst ==
  (ScopeWithTemplate /\ last.outcome = "wrap") =>
    \A n \in last.lookups : last.fmt_params[n] = InnermostBinding(n, last.trace)

\* the types of every configured source of the last layer: the instance's
\* throws, the class's throws, the sequences passed at the call site
ConfiguredSources(l) ==
  l.inst \cup (IF l.cls.has THEN l.cls.set ELSE {})
         \cup UNION {l.sargs[i].q : i \in {j \in 1..Len(l.sargs) : l.sargs[j].tag = "seq"}}

\* C6: a layer of either shape can be given a sequence of exception types
\* at its call site, and a raw failure passes a layer if and only if its
\* type matches one of the layer's configured sources.
C6_AnySourceSuffices ==
  /\ last.outcome # "TypeError"
  /\ (last.kind \in {"traced", "scope"} /\ last.input.kind = "raw") =>
       (last.outcome = "pass" <=> Bases(last.input.type) \cap ConfiguredSources(last) # {})

\* C7: format('dict') returns one level per node, with no key but 'text'
\* and 'sub_exc'; 'text' is there iff the node has a message, 'sub_exc' iff
\* the node has an inner node, and the deepest level holds the text of the
\* original failure.
C7_FormatShape ==
  out.done =>
    /\ out.ok
    /\ Len(out.val) = Len(exc.chain)
    /\ \A i \in 1..Len(out.val) :
         /\ out.val[i].keys \subseteq {"text", "sub_exc"}
         /\ "text" \in out.val[i].keys <=> exc.chain[i].text.has
         /\ "sub_exc" \in out.val[i].keys <=> i < Len(exc.chain)
    /\ out.val[Len(out.val)].text = format_exc(orig)

\* the last layer had a template and did not let its exception pass
LayerWithTemplate ==
  /\ last.kind \in {"traced", "scope"}
  /\ last.text_spec.has
  /\ last.outcome \notin {"pass", "TypeError"}

\* neither the explicit map nor the fallback of the last layer has name
Missing(l, name) ==
  /\ name \notin DOMAIN l.explicit
  /\ IF l.kind = "traced" THEN BoundArgument(l, name) = NoneV
     ELSE \A i \in 1..Len(l.trace) : name \notin DOMAIN l.trace[i]

\* C8: a layer with a template always raises its StackTracerException:
\* every placeholder is a key of the resolved map, a placeholder found
\* nowhere has the value None, and the message is the template with the
\* resolved values, None rendered as 'None'.
C8_MissingResolvesToNone ==
  LayerWithTemplate =>
    /\ last.outcome = "wrap"
    /\ \A n \in Placeholders(last.text_spec.s, 1) :
         /\ n \in DOMAIN last.fmt_params
         /\ Missing(last, n) => last.fmt_params[n] = NoneV
    /\ exc.chain[1].text = SomeText(Substitute(last.text_spec.s, 1, last.fmt_params))

\* C8 witness: scope('{x}={y}') where no frame binds x or y: 'None=None'
C8_Witness ==
  /\ LayerWithTemplate
  /\ last.kind = "scope"
  /\ Missing(last, X)
  /\ Missing(last, Y)
  /\ exc.chain[1].text = SomeText(NoneStr \o <<"=">> \o NoneStr)

\* the last layer was a scope without a template that did not let its
\* exception pass
ScopeWithoutTemplate ==
  /\ last.kind = "scope"
  /\ ~last.text_spec.has
  /\ last.outcome # "pass"

\* the last layer was a traced one around a node without a message
TracedAroundSilentNode ==
  /\ last.kind = "traced"
  /\ last.outcome # "TypeError"
  /\ last.input.kind = "ste"
  /\ ~last.input.chain[1].text.has

C10_NoPlaceholderNoLookup ==
  (gout.done /\ (gin.text_spec.has => Placeholders(gin.text_spec.s, 1) = {})) =>
    /\ gout.map = gin.params_map
    /\ gout.lookups = {}

\* the last layer was a traced one with a template that raised its
\* StackTracerException
TracedWithTemplate ==
  /\ last.kind = "traced"
  /\ last.text_spec.has
  /\ last.outcome = "wrap"

\* the value map of the exception the last layer received
InnerMap == Received(last.input)[1].params

\* C11: in a traced layer a placeholder takes the argument of that name of
\* the call; only when the call has no such argument the value of the
\* received exception's map, and None when neither has it.
C11_ArgumentsBeforeInner ==
  TracedWithTemplate =>
    exc.chain[1].text =
      SomeText(Substitute(last.text_spec.s, 1,
        [n \in Placeholders(last.text_spec.s, 1) |->
           IF BoundArgument(last, n) # NoneV THEN BoundArgument(last, n)
           ELSE IF n \in DOMAIN InnerMap THEN InnerMap[n]
           ELSE NoneV]))

\* C12: in a scope layer a placeholder takes the value of the layer's own
\* map, else that of the received exception's map, else that of the locals
\* of the call stack, else None.
C12_ScopeBorrowsInner ==
  (ScopeWithTemplate /\ last.outcome = "wrap") =>
    exc.chain[1].text =
      SomeText(Substitute(last.text_spec.s, 1,
        [n \in Placeholders(last.text_spec.s, 1) |->
           IF n \in DOMAIN last.explicit THEN last.explicit[n]
           ELSE IF n \in DOMAIN InnerMap THEN InnerMap[n]
           ELSE lookup_stack_value(n, last.trace)]))

\* the body of the last layer raised an already built StackTracerException
ReceivedChain ==
  /\ last.kind \in {"traced", "scope"}
  /\ last.input.kind = "ste"

\* C13: a layer whose body raises a StackTracerException raises a new
\* StackTracerException, whatever its pass-through sets hold: one node more
\* than the chain received, and that chain, unchanged, under the new node.
C13_ChainAlwaysExtended ==
  ReceivedChain =>
    /\ last.outcome = "wrap"
    /\ exc.kind = "ste"
    /\ Len(exc.chain) = Len(last.input.chain) + 1
    /\ Tail(exc.chain) = last.input.chain

\* C13 witness: tracer = Tracer(throws=(StackTracerException, LookupError));
\* with tracer.scope(...) around a layer that captured a KeyError: a chain
\* of three nodes
C13_Witness ==
  /\ ReceivedChain
  /\ last.kind = "scope"
  /\ last.form = "inst"
  /\ "StackTracerException" \in last.inst
  /\ "LookupError" \in last.inst
  /\ orig = RawExc("KeyError", Msg)
  /\ Len(last.input.chain) = 2
  /\ Len(exc.chain) = 3

\* C14: format('dict') gives for every node with a message that message,
\* as it was computed when the node was built (the template with every
\* placeholder replaced once by its resolved value), and does not raise,
\* whatever the values of the node's map are.  Only the nodes of scope
\* layers with a template have both a message and a map.
C14_RenderedTextIsMessage ==
  out.done =>
    /\ out.ok
    /\ \A i \in 1..Len(exc.chain) :
         exc.chain[i].text.has => out.val[i].text = exc.chain[i].text.s
    /\ ScopeWithTemplate =>
         out.val[1].text = Substitute(last.text_spec.s, 1, last.fmt_params)

====
